---- MODULE Spec2Model ----
(***************************************************************************)
(* Kazeta Cart Maker (kazeta_gui.py): the build request handler            *)
(* App.on_build, the build thread App.worker and the helpers it calls,     *)
(* as a state machine over the host (automount service, device mounts),    *)
(* the cart's files and the build threads.                                 *)
(***************************************************************************)
EXTENDS Integers, Sequences, FiniteSets, TLC

\* ------------------------------------------------------------------ bounds
\* Build threads that can exist at the same time (thread slots).
MaxWorkers == 2
\* Files in the game source directory the user can pick.
MaxFiles == 2

VARIABLES
    priv,      \* "root": os.geteuid() = 0; "pkexec": not root, pkexec installed;
               \* "none": not root and no pkexec
    STEAMGRIDDB_API_KEY,  \* whether the environment sets a SteamGridDB key
    PIL_AVAILABLE,        \* whether Pillow could be imported
    faults,    \* whether commands, downloads and file operations can fail on this host
    udisks2,   \* the automount service: "active" or "inactive"
    mounted,   \* whether the device's partition is mounted somewhere
    cart,      \* the files on the device's partition
    worker,    \* thread slot -> the locals of the build thread running in it
    builds,    \* number of workers started so far
    last,      \* how the latest on_build call ended
    channel,   \* whether the window's side of self.queue is followed
    queue,     \* self.queue: the items put and not yet taken, oldest first
    delivered, \* the items process_queue has handled, in the order it did
    poll       \* process_queue: "waiting" for its timer or "draining"

host == <<priv, STEAMGRIDDB_API_KEY, PIL_AVAILABLE, faults>>
caller == <<channel, delivered, poll>>
vars == <<host, udisks2, mounted, cart, worker, builds, last, queue, caller>>

Slots == 1..MaxWorkers

\* ------------------------------------------------------- characters, text
\* Text that the code inspects (digests, file names) is a sequence of
\* one-character strings; text that is only passed along is a string.
LowerChar(c) ==
    CASE c = "A" -> "a" [] c = "B" -> "b" [] c = "C" -> "c" [] c = "D" -> "d"
      [] c = "E" -> "e" [] c = "F" -> "f" [] c = "G" -> "g" [] c = "X" -> "x"
      [] OTHER -> c

\* str.lower()
Lower(s) == [i \in DOMAIN s |-> LowerChar(s[i])]

\* The str of a character sequence.
RECURSIVE Str(_)
Str(s) == IF s = <<>> THEN "" ELSE Head(s) \o Str(Tail(s))

\* "/".join of path components, each a character sequence.
RECURSIVE JoinPath(_)
JoinPath(p) ==
    IF p = <<>> THEN ""
    ELSE IF Len(p) = 1 THEN Str(p[1])
    ELSE Str(p[1]) \o "/" \o JoinPath(Tail(p))

\* ---------------------------------------------------------- trace entries
\* Everything a build thread does is appended to its trace, in order.
Log(m)      == <<"log", m, 0>>          \* self.qlog(m)
Progress(p) == <<"progress", "", p>>    \* self.set_progress(p)
\* An external command: r = 1 exit status 0, r = 0 nonzero exit status
\* (CalledProcessError), r = -1 the program could not be launched (OSError).
Cmd(c, r)   == <<"cmd", c, r>>
\* A file or network operation of the thread itself: r = 1 done, r = 0 raised.
Io(what, r) == <<"io", what, r>>

\* ------------------------------------------------------------ the defaults
\* DEFAULTS[rt]["runtime_sha256"], shortened to its first three digits.
DEFAULTS(rt) ==
    IF rt = "linux"
    THEN [runtime_url    |-> "https://runtimes.kazeta.org/linux-1.0.kzr",
          runtime_sha256 |-> <<"9", "e", "d">>]
    ELSE [runtime_url    |-> "https://runtimes.kazeta.org/windows-1.0.kzr",
          runtime_sha256 |-> <<"9", "e", "9">>]

\* hashlib's hexdigest (lower-case) of the bytes a download can deliver: the
\* published runtime of kind rt, or anything else.
sha256_file(data, rt) ==
    IF data = "official" THEN DEFAULTS(rt).runtime_sha256 ELSE <<"c", "a", "b">>

\* str.strip()
RECURSIVE LStrip(_)
LStrip(s) == IF s # <<>> /\ Head(s) = " " THEN LStrip(Tail(s)) ELSE s
RECURSIVE RStrip(_)
RStrip(s) ==
    IF s # <<>> /\ s[Len(s)] = " " THEN RStrip(SubSeq(s, 1, Len(s) - 1)) ELSE s
Strip(s) == RStrip(LStrip(s))

\* -------------------------------------------------------------- the files
\* A file: its path relative to the directory walked (components, each a
\* character sequence) and whether it carries an executable bit.
File(p, x) == [path |-> p, x |-> x]
GameExe  == <<"g", ".", "e", "x", "e">>
GameEXE2 == <<"G", "2", ".", "E", "X", "E">>
Run      == <<"r", "u", "n">>
Runner   == <<"r", "u", "n", "n", "e", "r">>
Sub      == <<"s", "u", "b">>
Setup    == <<"s", "e", "t", "u", "p", ".", "e", "x", "e">>
Readme   == <<"R", "E", "A", "D", "M", "E">>

\* The directories of the host the user can name as game source, each with its
\* files in the order os.walk yields them; any other path is no directory.
GameTree == <<File(<<Runner>>, TRUE), File(<<Sub, GameEXE2>>, FALSE), File(<<Sub, Run>>, TRUE)>>
HostDirs ==
    [d \in {"/game", "/empty"} |-> IF d = "/game" THEN SubSeq(GameTree, 1, MaxFiles) ELSE <<>>]
isdir(src) == src \in DOMAIN HostDirs

EmptyCart == [content |-> {}, runtime |-> <<>>, icon |-> "none",
              header_jpg |-> FALSE, manifest |-> <<>>]
\* A cart an earlier build left behind, with the game copied by hand.
PriorCart == [content |-> {File(<<GameExe>>, FALSE)},
              runtime |-> DEFAULTS("windows").runtime_sha256, icon |-> "placeholder",
              header_jpg |-> FALSE, manifest |-> <<"stale">>]

\* A cart with Windows programs the user copied by hand, none of them the one
\* the form names.
OtherCart == [PriorCart EXCEPT
                !.content = {File(<<Setup>>, FALSE), File(<<Sub, GameEXE2>>, FALSE)}]
\* A cart with Linux programs, and one with no executable file at all.
LinuxCart == [PriorCart EXCEPT
                !.content = {File(<<Runner>>, TRUE), File(<<Run>>, TRUE),
                             File(<<Sub, Run>>, TRUE)}]
PlainCart == [PriorCart EXCEPT
                !.content = {File(<<Readme>>, FALSE), File(<<Sub, Run>>, FALSE)}]
Carts == {EmptyCart, PriorCart, OtherCart, LinuxCart, PlainCart}

\* ------------------------------------------------------------- the threads
NoRequest == [devpath |-> "", appid |-> "", name |-> <<>>, slug |-> <<>>, exe |-> <<>>,
              label |-> "", src |-> "", runtime |-> "windows", runtime_sha |-> <<>>,
              verify_runtime |-> FALSE, no_format |-> FALSE, eject |-> FALSE]
Idle == [pc |-> "idle", req |-> NoRequest, resp |-> "", udisks_was_active |-> FALSE,
         exe |-> <<>>, exec_line |-> "", copied |-> 0, err |-> "", trace |-> <<>>]

TypeOK ==
    /\ priv \in {"root", "pkexec", "none"}
    /\ STEAMGRIDDB_API_KEY \in BOOLEAN
    /\ PIL_AVAILABLE \in BOOLEAN
    /\ faults \in BOOLEAN
    /\ udisks2 \in {"active", "inactive"}
    /\ mounted \in BOOLEAN
    /\ DOMAIN worker = Slots
    /\ builds \in 0..MaxWorkers
    /\ last \in {"", "error", "declined", "started"}
    /\ channel \in BOOLEAN
    /\ poll \in {"waiting", "draining"}

\* The hosts the tool is started on: as root with neither Pillow nor a
\* SteamGridDB key in the environment, from a desktop session with pkexec,
\* Pillow and a key, and by a user who has no pkexec.
Hosts ==
    {[priv |-> "root", key |-> FALSE, pil |-> FALSE],
     [priv |-> "pkexec", key |-> TRUE, pil |-> TRUE],
     [priv |-> "none", key |-> FALSE, pil |-> TRUE]}

Init ==
    /\ \E h \in Hosts :
         priv = h.priv /\ STEAMGRIDDB_API_KEY = h.key /\ PIL_AVAILABLE = h.pil
    /\ faults = TRUE
    /\ udisks2 \in {"active", "inactive"}
    /\ mounted \in BOOLEAN
    /\ cart \in {EmptyCart, PriorCart}
    /\ worker = [s \in Slots |-> Idle]
    /\ builds = 0
    /\ last = ""
    /\ channel = FALSE
    /\ queue = <<>>
    /\ delivered = <<>>
    /\ poll = "waiting"

\* --------------------------------------------------------------- run_cmd
\* CmdResults for a pkexec that is always there.
CmdResults_NoPrivCheck(need_root) == IF faults THEN {0, 1} ELSE {1}

\* How a command started by run_cmd can end: with need_root and no root, it is
\* run through pkexec, and cannot be launched when pkexec is missing.
CmdResults(need_root) ==
    IF need_root /\ priv = "none" THEN {-1} ELSE IF faults THEN {0, 1} ELSE {1}

\* How a download or a file operation of the thread itself can end.
IoResults == IF faults THEN {0, 1} ELSE {1}

\* The trace of run_cmd(cmd, need_root, log) ending with r.
run_cmd(cmd, need_root, r) ==
    LET line == IF need_root /\ priv # "root" THEN "pkexec " \o cmd ELSE cmd
    IN  <<Log("$ " \o line), Cmd(cmd, r)>>
        \o (IF r = 0 THEN <<Log(""), Log("ERROR: command failed: " \o line)>> ELSE <<>>)

\* The items a thread's calls of qlog and set_progress put into self.queue,
\* among what it did in tr.
IsEvent(e) == e[1] \in {"log", "progress"}
Events(tr) == SelectSeq(tr, IsEvent)
\* Lines 318-322: self.queue.put(...) for each of them, in order.
Put(tr) == queue' = IF channel THEN queue \o Events(tr) ELSE queue

\* The thread in slot s goes on at pc, having done tr.
Goto(s, pc, tr) ==
    /\ worker' = [worker EXCEPT ![s].pc = pc, ![s].trace = @ \o tr]
    /\ Put(tr)
\* The thread in slot s has done tr, the last of which raised exception e:
\* lines 623-624, except Exception as e: log(f"ERROR: {e}"); the finally
\* clause is next.
Raise(s, e, tr) ==
    /\ worker' = [worker EXCEPT ![s].pc = "finally", ![s].err = e,
                     ![s].trace = @ \o tr \o <<Log("ERROR: " \o e)>>]
    /\ Put(tr \o <<Log("ERROR: " \o e)>>)

\* --------------------------------------------------------------- on_build
\* What the user can have typed into the form.
Forms ==
    [device : {"", "/dev/sdb  [32G]  RM=True  SD"},
     name : {<<"Game">>},
     exe : {<<>>, <<GameExe>>},
     src : {"", "/nodir", "/game"},
     runtime : {"windows", "linux"},
     runtime_sha : {<<>>, <<" ">>, <<"9", "E", "9">>},
     verify_runtime : BOOLEAN, no_format : BOOLEAN, eject : BOOLEAN]

\* device_label.split()[0]
devpath_of(label) == IF label = "" THEN "" ELSE "/dev/sdb"

\* Lines 481-496: the request read from the form.
request(f) ==
    LET sha == IF Strip(f.runtime_sha) = <<>> THEN DEFAULTS(f.runtime).runtime_sha256
               ELSE Strip(f.runtime_sha)
    IN  [devpath |-> devpath_of(f.device), appid |-> "730", name |-> f.name,
         slug |-> <<"game">>, exe |-> f.exe, label |-> "GAME", src |-> f.src,
         runtime |-> f.runtime, runtime_sha |-> sha,
         verify_runtime |-> f.verify_runtime, no_format |-> f.no_format,
         eject |-> f.eject]

\* Line 509: threading.Thread(target=self.worker, args=...).start(), in the
\* first free slot. resp, the answer given to the format warning ("" when it
\* was not shown), is kept beside the thread's locals.
start_worker(req, resp) ==
    LET s == CHOOSE t \in Slots :
                 worker[t].pc = "idle" /\ \A u \in Slots : worker[u].pc = "idle" => t <= u
    IN  /\ last' = "started"
        /\ builds' = builds + 1
        /\ worker' = [worker EXCEPT ![s] =
               [Idle EXCEPT !.pc = "start", !.req = req, !.exe = req.exe, !.resp = resp]]

\* on_build without the return of lines 506-507.
on_build_NoReturn(f, resp) ==
    /\ \E t \in Slots : worker[t].pc = "idle"
    /\ IF f.device = "" \/ f.exe = <<>>
       THEN last' = "error" /\ UNCHANGED <<worker, builds>>
       ELSE start_worker(request(f), IF f.no_format THEN "" ELSE resp)
    /\ UNCHANGED <<host, udisks2, mounted, cart, queue, caller>>

\* App.on_build with the form f filled in and the user answering resp to the
\* format warning, should it be shown. (A thread can always be started; the
\* slots bound how many the model follows.)
on_build(f, resp) ==
    /\ \E t \in Slots : worker[t].pc = "idle"
    /\ IF f.device = "" \/ f.exe = <<>>
       THEN last' = "error" /\ UNCHANGED <<worker, builds>>
       ELSE IF ~f.no_format /\ resp # "yes"
       THEN last' = "declined" /\ UNCHANGED <<worker, builds>>
       ELSE start_worker(request(f), IF f.no_format THEN "" ELSE resp)
    /\ UNCHANGED <<host, udisks2, mounted, cart, queue, caller>>

\* The user presses "Build Kazeta Cart" with one of forms filled in.
OnBuild(forms) == \E f \in forms, resp \in {"yes", "no"} : on_build(f, resp)

\* ------------------------------------------------------------- App.worker
\* Lines 512-518: setp(0), udisks_was_active = False, the no_format test.
WorkerStart(s) ==
    /\ worker[s].pc = "start"
    /\ Goto(s, IF worker[s].req.no_format THEN "unmount" ELSE "detect", <<Progress(0)>>)
    /\ UNCHANGED <<host, udisks2, mounted, cart, builds, last, caller>>

\* DetectService with the flag set before the status is looked at.
DetectService_FlagFirst(s) ==
    /\ worker[s].pc = "detect"
    /\ \E r \in {IF udisks2 = "active" THEN 1 ELSE 0} \cup (IF faults THEN {-1} ELSE {}) :
         /\ worker' = [worker EXCEPT ![s].pc = IF r = 1 THEN "stop" ELSE "unmount",
                          ![s].udisks_was_active = TRUE,
                          ![s].trace = @ \o <<Cmd("systemctl is-active udisks2", r)>>
                                         \o (IF r = 1 THEN <<Log("Stopping udisks2")>> ELSE <<>>)]
         /\ Put(IF r = 1 THEN <<Log("Stopping udisks2")>> ELSE <<>>)
    /\ UNCHANGED <<host, udisks2, mounted, cart, builds, last, caller>>

\* Lines 520-523: systemctl is-active --quiet udisks2 (exit status 0 when the
\* service is active), run without run_cmd; any exception is swallowed.
DetectService(s) ==
    /\ worker[s].pc = "detect"
    /\ \E r \in {IF udisks2 = "active" THEN 1 ELSE 0} \cup (IF faults THEN {-1} ELSE {}) :
         IF r = 1
         THEN /\ worker' = [worker EXCEPT ![s].pc = "stop", ![s].udisks_was_active = TRUE,
                     ![s].trace = @ \o <<Cmd("systemctl is-active udisks2", r),
                                         Log("Stopping udisks2")>>]
              /\ Put(<<Log("Stopping udisks2")>>)
         ELSE Goto(s, "unmount", <<Cmd("systemctl is-active udisks2", r)>>)
    /\ UNCHANGED <<host, udisks2, mounted, cart, builds, last, caller>>

\* Lines 524-526: systemctl stop udisks2; a failure is swallowed.
StopService(s) ==
    /\ worker[s].pc = "stop"
    /\ \E r \in CmdResults(TRUE) :
         /\ Goto(s, "unmount", run_cmd("systemctl stop udisks2", TRUE, r))
         /\ udisks2' = IF r = 1 THEN "inactive" ELSE udisks2
    /\ UNCHANGED <<host, mounted, cart, builds, last, caller>>

\* unmount_device: lsblk (find_mounts_for_device, rl its result), umount -l of
\* each mountpoint found (r1), then umount -l of the first partition (r2), whose
\* failure is swallowed. raised: whether it raises; tr: what it did.
unmount_device(rl, r1, r2) ==
    IF rl # 1 THEN [raised |-> TRUE, mounted |-> mounted, tr |-> <<Cmd("lsblk", rl)>>]
    ELSE IF mounted /\ r1 # 1
    THEN [raised |-> TRUE, mounted |-> mounted,
          tr |-> <<Cmd("lsblk", rl)>> \o run_cmd("umount -l mp", TRUE, r1)]
    ELSE [raised |-> FALSE, mounted |-> FALSE,
          tr |-> <<Cmd("lsblk", rl)>>
                 \o (IF mounted THEN run_cmd("umount -l mp", TRUE, r1) ELSE <<>>)
                 \o run_cmd("umount -l part", TRUE, r2)]

\* UnmountExisting without the no_format test of line 531.
UnmountExisting_AlwaysFormat(s) ==
    /\ worker[s].pc = "unmount"
    /\ \E rl \in IoResults, r1 \in CmdResults(TRUE), r2 \in {IF priv = "none" THEN -1 ELSE 0} :
         LET u == unmount_device(rl, r1, r2)
             tr == <<Log("Unmounting any existing mounts")>> \o u.tr
         IN  /\ mounted' = u.mounted
             /\ IF u.raised THEN Raise(s, "unmount_device", tr) ELSE Goto(s, "wipefs", tr)
    /\ UNCHANGED <<host, udisks2, cart, builds, last, caller>>

\* Lines 528-531: unmount_device(devpath, log), then the no_format test.
UnmountExisting(s) ==
    /\ worker[s].pc = "unmount"
    /\ \E rl \in IoResults, r1 \in CmdResults(TRUE), r2 \in {IF priv = "none" THEN -1 ELSE 0} :
         LET u == unmount_device(rl, r1, r2)
             tr == <<Log("Unmounting any existing mounts")>> \o u.tr
         IN  /\ mounted' = u.mounted
             /\ IF u.raised THEN Raise(s, "unmount_device", tr)
                ELSE Goto(s, IF worker[s].req.no_format THEN "mkdir" ELSE "wipefs", tr)
    /\ UNCHANGED <<host, udisks2, cart, builds, last, caller>>

\* A step of partition_and_format or mount_partition: run_cmd(cmd, need_root=True)
\* at pc; on success the thread goes on at next, a failure is fatal unless
\* swallowed.
CmdStep(s, pc, cmd, pre, swallowed, next) ==
    /\ worker[s].pc = pc
    /\ \E r \in CmdResults(TRUE) :
         IF r = 1 \/ swallowed THEN Goto(s, next, pre \o run_cmd(cmd, TRUE, r))
         ELSE Raise(s, cmd, pre \o run_cmd(cmd, TRUE, r))

\* Whether the thread's latest command was cmd and ended with exit status 0.
Succeeded(s, cmd) == worker'[s].trace[Len(worker'[s].trace)] = Cmd(cmd, 1)

\* Lines 532-533, 169: wipefs -a devpath; the old contents are gone with it.
Wipefs(s) ==
    /\ CmdStep(s, "wipefs", "wipefs -a", <<Log("Wiping & partitioning device")>>, FALSE, "parted")
    /\ cart' = IF Succeeded(s, "wipefs -a") THEN EmptyCart ELSE cart
    /\ UNCHANGED <<host, udisks2, mounted, builds, last, caller>>

\* Line 170: parted -s devpath mklabel gpt mkpart primary ext4 1MiB 100%.
Parted(s) ==
    /\ CmdStep(s, "parted", "parted mklabel mkpart", <<>>, FALSE, "partprobe")
    /\ cart' = IF Succeeded(s, "parted mklabel mkpart") THEN EmptyCart ELSE cart
    /\ UNCHANGED <<host, udisks2, mounted, builds, last, caller>>

\* Lines 171-174: partprobe devpath; a failure is swallowed.
Partprobe(s) ==
    /\ CmdStep(s, "partprobe", "partprobe", <<>>, TRUE, "settle")
    /\ UNCHANGED <<host, udisks2, mounted, cart, builds, last, caller>>

\* Line 175: udevadm settle.
UdevSettle(s) ==
    /\ CmdStep(s, "settle", "udevadm settle", <<>>, FALSE, "mkfs")
    /\ UNCHANGED <<host, udisks2, mounted, cart, builds, last, caller>>

\* Line 176: mkfs.ext4 -F -L label devpath1.
Mkfs(s) ==
    /\ CmdStep(s, "mkfs", "mkfs.ext4", <<>>, FALSE, "mkdir")
    /\ cart' = IF Succeeded(s, "mkfs.ext4") THEN EmptyCart ELSE cart
    /\ UNCHANGED <<host, udisks2, mounted, builds, last, caller>>

\* Lines 535, 179-180: mkdir -p mount_base/label.
MkdirMountpoint(s) ==
    /\ CmdStep(s, "mkdir", "mkdir -p", <<Log("Mounting partition")>>, FALSE, "unmount2")
    /\ UNCHANGED <<host, udisks2, mounted, cart, builds, last, caller>>

\* Line 181: unmount_device again, inside mount_partition.
UnmountAgain(s) ==
    /\ worker[s].pc = "unmount2"
    /\ \E rl \in IoResults, r1 \in CmdResults(TRUE), r2 \in {IF priv = "none" THEN -1 ELSE 0} :
         LET u == unmount_device(rl, r1, r2)
         IN  /\ mounted' = u.mounted
             /\ IF u.raised THEN Raise(s, "unmount_device", u.tr) ELSE Goto(s, "mount", u.tr)
    /\ UNCHANGED <<host, udisks2, cart, builds, last, caller>>

\* Line 182: mount devpath1 mp.
Mount(s) ==
    /\ CmdStep(s, "mount", "mount", <<>>, FALSE, "chown")
    /\ mounted' = IF Succeeded(s, "mount") THEN TRUE ELSE mounted
    /\ UNCHANGED <<host, udisks2, cart, builds, last, caller>>

\* Lines 183, 537-543: chown -R uid:gid mp; then "Mounted at", setp(10) and
\* os.makedirs of content/ and kazeta/ (rd: whether they succeed).
ChownAndDirs(s) ==
    /\ worker[s].pc = "chown"
    /\ \E r \in CmdResults(TRUE), rd \in IoResults :
         IF r # 1 THEN Raise(s, "chown", run_cmd("chown -R", TRUE, r))
         ELSE LET tr == run_cmd("chown -R", TRUE, r)
                        \o <<Log("Mounted at: mp"), Progress(10), Io("makedirs", rd)>>
              IN  IF rd = 1 THEN Goto(s, "download", tr) ELSE Raise(s, "makedirs", tr)
    /\ UNCHANGED <<host, udisks2, mounted, cart, builds, last, caller>>

\* What is left of a file whose writing raised part-way.
Partial == <<"0">>

\* download_runtime, lines 187-190: http_bytes(url) (rh: whether it returns,
\* data: what it returns), then the file is opened and written (rw).
DownloadRuntime(s) ==
    /\ worker[s].pc = "download"
    /\ \E rh \in IoResults, data \in {"official", "other"}, rw \in IoResults :
         LET tr == <<Log("Downloading runtime"), Io("http_bytes runtime", rh)>>
         IN  IF rh # 1 THEN Raise(s, "http_bytes", tr) /\ UNCHANGED cart
             ELSE IF rw # 1
             THEN /\ Raise(s, "write runtime", tr \o <<Io("write runtime", rw)>>)
                  /\ cart' = [cart EXCEPT !.runtime = Partial]
             ELSE /\ Goto(s, "verify", tr \o <<Io("write runtime", rw)>>)
                  /\ cart' = [cart EXCEPT !.runtime = sha256_file(data, worker[s].req.runtime)]
    /\ UNCHANGED <<host, udisks2, mounted, builds, last, caller>>

\* digest_ok comparing the digests as written, without lower().
digest_ok_CaseSensitive(verify, expected_sha, actual) ==
    IF verify /\ expected_sha # <<>> THEN actual = expected_sha ELSE TRUE

\* download_runtime, lines 191-194: whether the digest check lets the build go
\* on, for the file's digest actual.
digest_ok(verify, expected_sha, actual) ==
    IF verify /\ expected_sha # <<>> THEN Lower(actual) = Lower(expected_sha) ELSE TRUE

\* VerifyRuntime removing the downloaded file when the digests differ.
VerifyRuntime_DeletesFile(s) ==
    /\ worker[s].pc = "verify"
    /\ LET rq == worker[s].req
           checked == rq.verify_runtime /\ rq.runtime_sha # <<>>
           tr == IF checked THEN <<Io("sha256_file", 1)>> ELSE <<>>
       IN  IF ~checked \/ Lower(cart.runtime) = Lower(rq.runtime_sha)
           THEN /\ Goto(s, "art", tr \o <<Log(IF rq.verify_runtime
                                              THEN "Runtime downloaded and verified."
                                              ELSE "Runtime downloaded (verification skipped)."),
                                          Progress(20)>>)
                /\ UNCHANGED cart
           ELSE /\ Raise(s, "Runtime SHA-256 mismatch!", tr)
                /\ cart' = [cart EXCEPT !.runtime = <<>>]
    /\ UNCHANGED <<host, udisks2, mounted, builds, last, caller>>

\* Lines 191-194 and 548-549: the digest check, the log line and setp(20).
VerifyRuntime(s) ==
    /\ worker[s].pc = "verify"
    /\ LET rq == worker[s].req
           checked == rq.verify_runtime /\ rq.runtime_sha # <<>>
           tr == IF checked THEN <<Io("sha256_file", 1)>> ELSE <<>>
       IN  IF digest_ok(rq.verify_runtime, rq.runtime_sha, cart.runtime)
           THEN Goto(s, "art", tr \o <<Log(IF rq.verify_runtime
                                           THEN "Runtime downloaded and verified."
                                           ELSE "Runtime downloaded (verification skipped)."),
                                       Progress(20)>>)
           ELSE Raise(s, "Runtime SHA-256 mismatch!", tr)
    /\ UNCHANGED <<host, udisks2, mounted, cart, builds, last, caller>>

\* fetch_artwork with an appid. rs: how the SteamGridDB lookup and download
\* end ("raise": any of its requests or the writing of the icon raised;
\* "nodata": the game has no icon there; "ok"); rh: whether the header download
\* and its writing succeed; rc: whether Pillow's conversion succeeds; rp:
\* whether the placeholder is written. What it leaves and what it did.
fetch_artwork(rs, rh, rc, rp) ==
    LET key  == STEAMGRIDDB_API_KEY
        pil  == PIL_AVAILABLE
        sgdb == IF ~key \/ rs = "nodata" THEN <<>>
                ELSE IF rs = "ok"
                THEN <<Log("Downloading icon from SteamGridDB"),
                       Io("write icon.png (steamgriddb)", 1)>>
                ELSE <<Log("SteamGridDB fetch failed")>>
        hdr  == <<Log("Downloading Steam header")>>
                \o (IF rh # 1
                    THEN <<Log("Steam header download failed")>>
                    ELSE <<Io("write header.jpg", 1)>>
                         \o (IF ~pil THEN <<>>
                             ELSE IF rc = 1 THEN <<Io("write icon.png (header)", 1)>>
                             ELSE <<Io("write icon.png (header)", 0),
                                    Log("Pillow conversion failed")>>))
        ph   == <<Io("write icon.png (placeholder)", rp)>>
    IN  IF key /\ rs = "ok"
        THEN [raised |-> FALSE, icon |-> "steamgriddb", header_jpg |-> cart.header_jpg,
              tr |-> sgdb]
        ELSE IF rh = 1 /\ pil /\ rc = 1
        THEN [raised |-> FALSE, icon |-> "header", header_jpg |-> TRUE, tr |-> sgdb \o hdr]
        ELSE [raised |-> rp # 1,
              icon |-> IF rp = 1 THEN "placeholder" ELSE "partial",
              header_jpg |-> (cart.header_jpg \/ rh = 1), tr |-> sgdb \o hdr \o ph]

\* Lines 551-555: fetch_artwork and setp(30).
FetchArtwork(s) ==
    /\ worker[s].pc = "art"
    /\ \E rs \in {"nodata", "ok"} \cup (IF faults THEN {"raise"} ELSE {}),
          rh \in IoResults, rc \in IoResults, rp \in IoResults :
         LET a == fetch_artwork(rs, rh, rc, rp)
         IN  /\ cart' = [cart EXCEPT !.icon = a.icon, !.header_jpg = a.header_jpg]
             /\ IF a.raised THEN Raise(s, "write icon.png", a.tr)
                ELSE Goto(s, "stage", a.tr \o <<Progress(30)>>)
    /\ UNCHANGED <<host, udisks2, mounted, builds, last, caller>>

\* ---------------------------------------------------------------- copy_tree
\* The percentage copy_tree reports after copying `copied` of `total` files:
\* min(100, int(copied * 100 / max(1, total))).
Max(a, b) == IF a >= b THEN a ELSE b
Min(a, b) == IF a <= b THEN a ELSE b
copy_progress(copied, total) == Min(100, (copied * 100) \div Max(1, total))

\* copy_tree calling its progress argument with p, line 283.
Report(p) == <<"report", "copy_tree", p>>

\* The worker's progress callback, lambda p: setp(30 + int(p*0.5)).
stage_progress(p) == Progress(30 + p \div 2)

\* StageContent going on when the source is no directory.
StageContent_MissingDirIgnored(s) ==
    /\ worker[s].pc = "stage"
    /\ LET src == worker[s].req.src
       IN  IF src = ""
           THEN Goto(s, "resolve", <<Log("No source dir provided")>>)
           ELSE IF ~isdir(src)
           THEN Goto(s, "resolve", <<Log("Copying game files"), Io("isdir", 0)>>)
           ELSE LET tr == <<Log("Copying game files"), Io("isdir", 1)>>
                IN  IF Len(HostDirs[src]) = 0
                    THEN Goto(s, "resolve", tr \o <<Progress(80)>>)
                    ELSE Goto(s, "copy", tr)
    /\ UNCHANGED <<host, udisks2, mounted, cart, builds, last, caller>>

\* Lines 558-563 and 265-271: the src test; copy_tree's isdir test, makedirs
\* of content/ and the count of the files. With no file to copy, setp(80)
\* follows at once.
StageContent(s) ==
    /\ worker[s].pc = "stage"
    /\ LET src == worker[s].req.src
       IN  IF src = ""
           THEN Goto(s, "resolve", <<Log("No source dir provided")>>)
           ELSE IF ~isdir(src)
           THEN Raise(s, "Source dir not found", <<Log("Copying game files"), Io("isdir", 0)>>)
           ELSE LET tr == <<Log("Copying game files"), Io("isdir", 1)>>
                IN  IF Len(HostDirs[src]) = 0
                    THEN Goto(s, "resolve", tr \o <<Progress(80)>>)
                    ELSE Goto(s, "copy", tr)
    /\ UNCHANGED <<host, udisks2, mounted, cart, builds, last, caller>>

\* Lines 277-283: shutil.copy2 of the next file (rc: whether it succeeds),
\* copied += 1 and the progress report; after the last file, setp(80).
CopyFile(s) ==
    /\ worker[s].pc = "copy"
    /\ LET tree == HostDirs[worker[s].req.src]
           total == Len(tree)
           n == worker[s].copied + 1
           f == tree[n]
       IN  \E rc \in IoResults :
             IF rc # 1
             THEN /\ Raise(s, "copy2", <<Io("copy2", 0)>>)
                  /\ UNCHANGED cart
             ELSE /\ cart' = [cart EXCEPT !.content = {g \in @ : g.path # f.path} \cup {f}]
                  /\ worker' = [worker EXCEPT
                        ![s].copied = n,
                        ![s].pc = IF n = total THEN "resolve" ELSE "copy",
                        ![s].trace = @ \o <<Io("copy2", 1), Report(copy_progress(n, total)),
                                             stage_progress(copy_progress(n, total))>>
                                       \o (IF n = total THEN <<Progress(80)>> ELSE <<>>)]
                  /\ Put(<<stage_progress(copy_progress(n, total))>>
                         \o (IF n = total THEN <<Progress(80)>> ELSE <<>>))
    /\ UNCHANGED <<host, udisks2, mounted, builds, last, caller>>

\* ----------------------------------------------------------- find_exe_under
HasDot(fn) == \E i \in DOMAIN fn : fn[i] = "."
\* fn.lower().endswith(".exe")
EndsWithExe(fn) ==
    /\ Len(fn) >= 4
    /\ SubSeq(Lower(fn), Len(fn) - 3, Len(fn)) = <<".", "e", "x", "e">>
basename(p) == p[Len(p)]
\* KeyLE comparing the length of the name before the depth.
KeyLE_NameFirst(p, q) ==
    \/ Len(basename(p)) < Len(basename(q))
    \/ Len(basename(p)) = Len(basename(q)) /\ Len(p) <= Len(q)
\* The sort key: (p.count(os.sep), len(os.path.basename(p))).
KeyLE(p, q) ==
    \/ Len(p) < Len(q)
    \/ Len(p) = Len(q) /\ Len(basename(p)) <= Len(basename(q))
\* list.sort(key=...): stable, by insertion.
RECURSIVE InsertSorted(_, _)
InsertSorted(sorted, p) ==
    IF sorted = <<>> THEN <<p>>
    ELSE IF KeyLE(sorted[Len(sorted)], p) THEN Append(sorted, p)
    ELSE Append(InsertSorted(SubSeq(sorted, 1, Len(sorted) - 1), p), sorted[Len(sorted)])
RECURSIVE SortCandidates(_)
SortCandidates(c) ==
    IF c = <<>> THEN <<>>
    ELSE InsertSorted(SortCandidates(SubSeq(c, 1, Len(c) - 1)), c[Len(c)])
\* The relative paths of the files of a walk.
Paths(walk) == [i \in DOMAIN walk |-> walk[i].path]

\* find_exe_under(path, runtime) for the files of path in the order os.walk
\* (and os.listdir) yields them.
find_exe_under(walk, runtime) ==
    LET IsExe(f)   == EndsWithExe(basename(f.path))
        IsBin(f)   == ~HasDot(basename(f.path)) /\ f.x
        IsTop(f)   == Len(f.path) = 1 /\ ~HasDot(basename(f.path))
        candidates ==
            IF runtime = "windows" THEN Paths(SelectSeq(walk, IsExe))
            ELSE IF SelectSeq(walk, IsBin) # <<>> THEN Paths(SelectSeq(walk, IsBin))
            ELSE Paths(SelectSeq(walk, IsTop))
    IN  SortCandidates(candidates)

\* The orders in which the files of a directory can be walked.
Walks(files) ==
    {w \in [1..Cardinality(files) -> files] : \A i, j \in DOMAIN w : i # j => w[i] # w[j]}

\* ------------------------------------------------- the rest of App.worker
exists(path) == \E f \in cart.content : f.path = path

\* Lines 582-583 and 594-595: os.stat, then os.chmod(..., st.st_mode |
\* stat.S_IXUSR). The module never imports stat (lines 18-30), so evaluating
\* the argument raises NameError before os.chmod is called; the handler logs it.
chmod_x(path) == <<Io("stat", 1), Log("Could not chmod +x")>>

\* resolve_exe keeping the configured path in Windows mode, found or not.
resolve_exe_NoSearch(runtime, exe, walk) ==
    LET candidates == find_exe_under(walk, runtime)
        guessed == IF candidates # <<>> THEN candidates[1] ELSE exe
    IN  IF runtime = "windows"
        THEN [exe |-> exe, exec_line |-> "content/" \o JoinPath(exe), tr |-> <<>>]
        ELSE IF exists(exe)
             THEN [exe |-> exe, exec_line |-> "cd content && ./" \o JoinPath(exe),
                   tr |-> chmod_x(exe)]
             ELSE [exe |-> guessed, exec_line |-> "cd content && ./" \o JoinPath(guessed),
                   tr |-> <<Log("Executable not found. Searching for Linux binaries")>>
                          \o (IF candidates # <<>>
                              THEN <<Log("Guessed executable")>> \o chmod_x(guessed)
                              ELSE <<Log("WARNING: No likely Linux binary found")>>)]

\* resolve_exe keeping no path when the search finds nothing.
resolve_exe_NoFallback(runtime, exe, walk) ==
    LET candidates == find_exe_under(walk, runtime)
        guessed == IF candidates # <<>> THEN candidates[1] ELSE <<>>
    IN  IF runtime = "windows"
        THEN IF exists(exe)
             THEN [exe |-> exe, exec_line |-> "content/" \o JoinPath(exe), tr |-> <<>>]
             ELSE [exe |-> guessed, exec_line |-> "content/" \o JoinPath(guessed),
                   tr |-> <<Log("Executable not found. Searching for .exe files")>>
                          \o (IF candidates # <<>> THEN <<Log("Guessed executable")>>
                              ELSE <<Log("WARNING: No .exe found under content/")>>)]
        ELSE IF exists(exe)
             THEN [exe |-> exe, exec_line |-> "cd content && ./" \o JoinPath(exe),
                   tr |-> chmod_x(exe)]
             ELSE [exe |-> guessed, exec_line |-> "cd content && ./" \o JoinPath(guessed),
                   tr |-> <<Log("Executable not found. Searching for Linux binaries")>>
                          \o (IF candidates # <<>>
                              THEN <<Log("Guessed executable")>> \o chmod_x(guessed)
                              ELSE <<Log("WARNING: No likely Linux binary found")>>)]

\* Lines 565-601: the executable is checked or guessed, for the content
\* directory walked in the order walk. The new exe, exec_line and the trace.
resolve_exe(runtime, exe, walk) ==
    LET candidates == find_exe_under(walk, runtime)
        guessed == IF candidates # <<>> THEN candidates[1] ELSE exe
    IN  IF runtime = "windows"
        THEN IF exists(exe)
             THEN [exe |-> exe, exec_line |-> "content/" \o JoinPath(exe), tr |-> <<>>]
             ELSE [exe |-> guessed, exec_line |-> "content/" \o JoinPath(guessed),
                   tr |-> <<Log("Executable not found. Searching for .exe files")>>
                          \o (IF candidates # <<>> THEN <<Log("Guessed executable")>>
                              ELSE <<Log("WARNING: No .exe found under content/")>>)]
        ELSE IF exists(exe)
             THEN [exe |-> exe, exec_line |-> "cd content && ./" \o JoinPath(exe),
                   tr |-> chmod_x(exe)]
             ELSE [exe |-> guessed, exec_line |-> "cd content && ./" \o JoinPath(guessed),
                   tr |-> <<Log("Executable not found. Searching for Linux binaries")>>
                          \o (IF candidates # <<>>
                              THEN <<Log("Guessed executable")>> \o chmod_x(guessed)
                              ELSE <<Log("WARNING: No likely Linux binary found")>>)]

ResolveExecutable(s) ==
    /\ worker[s].pc = "resolve"
    /\ \E walk \in Walks(cart.content) :
         LET r == resolve_exe(worker[s].req.runtime, worker[s].exe, walk)
         IN  /\ worker' = [worker EXCEPT ![s].pc = "write_kzi", ![s].exe = r.exe,
                              ![s].exec_line = r.exec_line,
                              ![s].trace = @ \o <<Io("exists", 1)>> \o r.tr]
             /\ Put(r.tr)
    /\ UNCHANGED <<host, udisks2, mounted, cart, builds, last, caller>>

\* Line 606: the text of cart.kzi, as the pieces the f-string puts together:
\* the keys, "=", the values and the newlines. name and slug are the pieces
\* of the Name and Id entries (.strip() takes no newline out of the middle).
kzi_text(name, slug, exec_line, runtime) ==
    <<"Name", "=">> \o name \o <<"\n">>
    \o <<"Id", "=">> \o slug \o <<"\n">>
    \o <<"Exec", "=", exec_line, "\n">>
    \o <<"Icon", "=", "kazeta/icon.png", "\n">>
    \o <<"Runtime", "=", runtime, "\n">>

\* Lines 603-608: cart.kzi is opened for writing (which empties it) and
\* written. rw = 1: written; 0: the open raised; -1: the write raised.
WriteManifest(s) ==
    /\ worker[s].pc = "write_kzi"
    /\ \E rw \in IoResults \cup (IF faults THEN {-1} ELSE {}) :
         LET rq == worker[s].req
         IN  IF rw = 1
             THEN /\ cart' = [cart EXCEPT !.manifest =
                                 kzi_text(rq.name, rq.slug, worker[s].exec_line, rq.runtime)]
                  /\ Goto(s, "sync", <<Io("write cart.kzi", 1), Log("Wrote cart.kzi"), Progress(90)>>)
             ELSE /\ cart' = [cart EXCEPT !.manifest = IF rw = 0 THEN @ ELSE <<>>]
                  /\ Raise(s, "write cart.kzi", <<Io("write cart.kzi", rw)>>)
    /\ UNCHANGED <<host, udisks2, mounted, builds, last, caller>>

\* Sync without the eject test of line 615.
Sync_AlwaysEject(s) ==
    /\ worker[s].pc = "sync"
    /\ Goto(s, "eject", <<Io("os.sync", 1)>>)
    /\ UNCHANGED <<host, udisks2, mounted, cart, builds, last, caller>>

\* Sync going on without the call of os.sync().
Sync_NoSync(s) ==
    /\ worker[s].pc = "sync"
    /\ Goto(s, IF worker[s].req.eject THEN "eject" ELSE "done", <<>>)
    /\ UNCHANGED <<host, udisks2, mounted, cart, builds, last, caller>>

\* Lines 610-615: os.sync(), then the eject test. os.sync() calls sync(2),
\* which reports no error, and returns None: the except clause of line 612 is
\* never entered.
Sync(s) ==
    /\ worker[s].pc = "sync"
    /\ Goto(s, IF worker[s].req.eject THEN "eject" ELSE "done", <<Io("os.sync", 1)>>)
    /\ UNCHANGED <<host, udisks2, mounted, cart, builds, last, caller>>

\* Lines 616-618: umount -l mount_point.
Eject(s) ==
    /\ worker[s].pc = "eject"
    /\ \E r \in CmdResults(TRUE) :
         LET tr == <<Log("Unmounting card")>> \o run_cmd("umount -l mount_point", TRUE, r)
         IN  IF r = 1
             THEN Goto(s, "done", tr \o <<Log("Card unmounted.")>>) /\ mounted' = FALSE
             ELSE Raise(s, "umount", tr) /\ UNCHANGED mounted
    /\ UNCHANGED <<host, udisks2, cart, builds, last, caller>>

\* Done without the setp(100) of line 621.
Done_NoHundred(s) ==
    /\ worker[s].pc = "done"
    /\ Goto(s, "finally", <<Log("Done. Kazeta cart ready.")>>)
    /\ UNCHANGED <<host, udisks2, mounted, cart, builds, last, caller>>

\* Lines 620-621.
Done(s) ==
    /\ worker[s].pc = "done"
    /\ Goto(s, "finally", <<Log("Done. Kazeta cart ready."), Progress(100)>>)
    /\ UNCHANGED <<host, udisks2, mounted, cart, builds, last, caller>>

\* Finally as the last statements of the try block: skipped after a failure.
Finally_NotAfterFailure(s) ==
    /\ worker[s].pc = "finally"
    /\ IF worker[s].udisks_was_active /\ worker[s].err = ""
       THEN \E r \in CmdResults(TRUE) :
              /\ Goto(s, "exited", run_cmd("systemctl start udisks2", TRUE, r))
              /\ udisks2' = IF r = 1 THEN "active" ELSE udisks2
       ELSE Goto(s, "exited", <<>>) /\ UNCHANGED udisks2
    /\ UNCHANGED <<host, mounted, cart, builds, last, caller>>

\* Lines 625-630: finally: systemctl start udisks2 when udisks_was_active; a
\* failure is swallowed. The thread ends.
Finally(s) ==
    /\ worker[s].pc = "finally"
    /\ IF worker[s].udisks_was_active
       THEN \E r \in CmdResults(TRUE) :
              /\ Goto(s, "exited", run_cmd("systemctl start udisks2", TRUE, r))
              /\ udisks2' = IF r = 1 THEN "active" ELSE udisks2
       ELSE Goto(s, "exited", <<>>) /\ UNCHANGED udisks2
    /\ UNCHANGED <<host, mounted, cart, builds, last, caller>>

\* ------------------------------------------------------ App.process_queue
\* Lines 295 and 316: the timer set by self.after(100, self.process_queue)
\* fires and process_queue begins its loop.
ProcessQueueStart ==
    /\ poll = "waiting"
    /\ poll' = "draining"
    /\ UNCHANGED <<host, udisks2, mounted, cart, worker, builds, last, queue,
                   channel, delivered>>

\* ProcessQueueGet taking the newest item instead of the oldest.
ProcessQueueGet_Newest ==
    /\ poll = "draining" /\ queue # <<>>
    /\ delivered' = Append(delivered, queue[Len(queue)])
    /\ queue' = SubSeq(queue, 1, Len(queue) - 1)
    /\ UNCHANGED <<host, udisks2, mounted, cart, worker, builds, last, channel, poll>>

\* Lines 308-313: get_nowait() returns the oldest item, which is handled: a
\* message is appended to the log text, a progress item sets the bar.
ProcessQueueGet ==
    /\ poll = "draining" /\ queue # <<>>
    /\ delivered' = Append(delivered, Head(queue))
    /\ queue' = Tail(queue)
    /\ UNCHANGED <<host, udisks2, mounted, cart, worker, builds, last, channel, poll>>

\* Lines 314-316: get_nowait() raises queue.Empty; the loop ends and the timer
\* is set again.
ProcessQueueEmpty ==
    /\ poll = "draining" /\ queue = <<>>
    /\ poll' = "waiting"
    /\ UNCHANGED <<host, udisks2, mounted, cart, worker, builds, last, queue,
                   channel, delivered>>

\* ------------------------------------------------------- specifications
WorkerStep(s) ==
    \/ WorkerStart(s) \/ DetectService(s) \/ StopService(s) \/ UnmountExisting(s)
    \/ Wipefs(s) \/ Parted(s) \/ Partprobe(s) \/ UdevSettle(s) \/ Mkfs(s)
    \/ MkdirMountpoint(s) \/ UnmountAgain(s) \/ Mount(s) \/ ChownAndDirs(s)
    \/ DownloadRuntime(s) \/ VerifyRuntime(s) \/ FetchArtwork(s)
    \/ StageContent(s) \/ CopyFile(s) \/ ResolveExecutable(s) \/ WriteManifest(s)
    \/ Sync(s) \/ Eject(s) \/ Done(s) \/ Finally(s)

\* The caller serializes its requests (spec, section 5): one build is followed
\* from any state of the host and of the cart an earlier build can have left.
Next ==
    \/ builds = 0 /\ OnBuild(Forms)
    \/ \E s \in Slots : WorkerStep(s)

Spec == Init /\ [][Next]_vars

\* The user presses the button again while builds are running: nothing in
\* on_build refuses. Two requests on one host, a formatting build with every
\* optional step and a build onto the existing filesystem.
ConcForms ==
    {[device |-> "/dev/sdb  [32G]  RM=True  SD", name |-> <<"Game">>, exe |-> <<GameExe>>,
      src |-> "/game",
      runtime |-> "linux", runtime_sha |-> <<>>, verify_runtime |-> TRUE,
      no_format |-> FALSE, eject |-> TRUE],
     [device |-> "/dev/sdb  [32G]  RM=True  SD", name |-> <<"Game">>, exe |-> <<GameExe>>,
      src |-> "",
      runtime |-> "windows", runtime_sha |-> <<>>, verify_runtime |-> FALSE,
      no_format |-> TRUE, eject |-> FALSE]}

InitConc ==
    /\ priv = "pkexec"
    /\ STEAMGRIDDB_API_KEY = FALSE
    /\ PIL_AVAILABLE = FALSE
    /\ faults = FALSE
    /\ udisks2 = "active"
    /\ mounted = FALSE
    /\ cart = EmptyCart
    /\ worker = [s \in Slots |-> Idle]
    /\ builds = 0
    /\ last = ""
    /\ channel = FALSE
    /\ queue = <<>>
    /\ delivered = <<>>
    /\ poll = "waiting"

NextConc ==
    \/ OnBuild(ConcForms)
    \/ \E s \in Slots : WorkerStep(s)

SpecConc == InitConc /\ [][NextConc]_vars

\* One build and the window that shows its messages: the thread puts, the
\* window's process_queue takes, in any interleaving. The request formats,
\* verifies, copies and ejects, on a host where every step can fail.
QueueForms ==
    {[device |-> "/dev/sdb  [32G]  RM=True  SD", name |-> <<"Game">>, exe |-> <<GameExe>>,
      src |-> "/game",
      runtime |-> "linux", runtime_sha |-> <<>>, verify_runtime |-> TRUE,
      no_format |-> FALSE, eject |-> TRUE]}

InitQueue ==
    /\ priv = "pkexec"
    /\ STEAMGRIDDB_API_KEY = FALSE
    /\ PIL_AVAILABLE = FALSE
    /\ faults = TRUE
    /\ udisks2 = "active"
    /\ mounted = FALSE
    /\ cart = EmptyCart
    /\ worker = [s \in Slots |-> Idle]
    /\ builds = 0
    /\ last = ""
    /\ channel = TRUE
    /\ queue = <<>>
    /\ delivered = <<>>
    /\ poll = "waiting"

NextQueue ==
    \/ builds = 0 /\ OnBuild(QueueForms)
    \/ \E s \in Slots : WorkerStep(s)
    \/ ProcessQueueStart \/ ProcessQueueGet \/ ProcessQueueEmpty

\* The window keeps polling: Tk runs each timer it was given, and a loop that
\* has an item to take takes it.
SpecQueue ==
    /\ InitQueue /\ [][NextQueue]_vars
    /\ WF_vars(ProcessQueueStart) /\ WF_vars(ProcessQueueGet) /\ WF_vars(ProcessQueueEmpty)

\* One build on a host where no step fails, from every cart of Carts: what
\* the staging, the executable check and the manifest make of the files on
\* the cart, of the source directory and of the name typed.
FileForms ==
    [device : {"/dev/sdb  [32G]  RM=True  SD"},
     name : {<<"Game">>, <<"Half", "\n", "Life">>},
     exe : {<<GameExe>>},
     src : {"", "/empty", "/game"},
     runtime : {"windows", "linux"},
     runtime_sha : {<<>>},
     verify_runtime : {FALSE}, no_format : BOOLEAN, eject : BOOLEAN]

InitFiles ==
    /\ priv = "pkexec"
    /\ STEAMGRIDDB_API_KEY = FALSE
    /\ PIL_AVAILABLE = FALSE
    /\ faults = FALSE
    /\ udisks2 = "active"
    /\ mounted = FALSE
    /\ cart \in Carts
    /\ worker = [s \in Slots |-> Idle]
    /\ builds = 0
    /\ last = ""
    /\ channel = FALSE
    /\ queue = <<>>
    /\ delivered = <<>>
    /\ poll = "waiting"

NextFiles ==
    \/ builds = 0 /\ OnBuild(FileForms)
    \/ \E s \in Slots : WorkerStep(s)

SpecFiles == InitFiles /\ [][NextFiles]_vars

\* One build followed to its end on a host where every step can fail: with
\* and without formatting and ejecting, for either runtime, with no source
\* directory, one that is there and one that is not. The thread is scheduled as long as it has a step to take,
\* and the commands and downloads it waits for return.
RunForms ==
    [device : {"/dev/sdb  [32G]  RM=True  SD"},
     name : {<<"Game">>},
     exe : {<<GameExe>>},
     src : {"", "/game", "/nodir"},
     runtime : {"windows", "linux"},
     runtime_sha : {<<>>},
     verify_runtime : {TRUE}, no_format : BOOLEAN, eject : BOOLEAN]

InitRun ==
    /\ priv = "pkexec"
    /\ STEAMGRIDDB_API_KEY = FALSE
    /\ PIL_AVAILABLE = FALSE
    /\ faults = TRUE
    /\ udisks2 = "active"
    /\ mounted = FALSE
    /\ cart = EmptyCart
    /\ worker = [s \in Slots |-> Idle]
    /\ builds = 0
    /\ last = ""
    /\ channel = FALSE
    /\ queue = <<>>
    /\ delivered = <<>>
    /\ poll = "waiting"

NextRun ==
    \/ builds = 0 /\ OnBuild(RunForms)
    \/ \E s \in Slots : WorkerStep(s)

SpecRun ==
    /\ InitRun /\ [][NextRun]_vars
    /\ WF_vars(\E s \in Slots : WorkerStep(s))

\* ------------------------------------------------------------ the claims
Trace(s) == worker[s].trace
\* The thread in slot s has done e.
Did(s, e) == \E i \in DOMAIN Trace(s) : Trace(s)[i] = e
\* The thread in slot s has run command c (whatever its result).
Ran(s, c) == \E i \in DOMAIN Trace(s) : Trace(s)[i][1] = "cmd" /\ Trace(s)[i][2] = c
\* The thread in slot s has attempted the file or network operation w.
Tried(s, w) == \E i \in DOMAIN Trace(s) : Trace(s)[i][1] = "io" /\ Trace(s)[i][2] = w
\* Entry i of the trace of the thread in slot s is a run of command c.
IsRun(s, i, c) == Trace(s)[i][1] = "cmd" /\ Trace(s)[i][2] = c
Exited(s) == worker[s].pc = "exited"
Failed(s) == worker[s].err # ""
ReachedDone(s) == Did(s, Log("Done. Kazeta cart ready."))
Destructive == {"wipefs -a", "parted mklabel mkpart", "mkfs.ext4"}
FormatCommands == Destructive \cup {"partprobe"}
ArtRan(s) ==
    \/ Did(s, Log("Downloading Steam header"))
    \/ Did(s, Log("Downloading icon from SteamGridDB"))
    \/ Did(s, Log("SteamGridDB fetch failed"))
\* The thread in slot s has left FetchingRuntime for the next step: setp(20).
PastRuntime(s) == Did(s, Progress(20))
StagingRan(s) == Did(s, Log("Copying game files")) \/ Did(s, Log("No source dir provided"))

\* C1: a build that found udisks2 active and issued the stop has attempted
\* systemctl start udisks2, after the stop, by the time its thread ends,
\* whether it reached Done or failed at any step.
C1_RestartAttempted ==
    \A s \in Slots :
        Exited(s) /\ Ran(s, "systemctl stop udisks2") =>
            \E j \in DOMAIN Trace(s) :
                /\ IsRun(s, j, "systemctl start udisks2")
                /\ \E i \in 1..(j - 1) : IsRun(s, i, "systemctl stop udisks2")

\* A failed build (here at mkfs.ext4) that had stopped the service and has
\* attempted the restart.
C1_Witness ==
    \E s \in Slots :
        /\ Exited(s) /\ worker[s].err = "mkfs.ext4"
        /\ Did(s, Cmd("systemctl stop udisks2", 1))
        /\ Ran(s, "systemctl start udisks2")

\* C2: a build issues systemctl start udisks2 only in its cleanup, only if its
\* detection saw the service active, and at most once; a build that saw it
\* inactive or whose check failed never does; one that saw it active has
\* issued the start when its thread ends.
C2_StartIffObservedActive ==
    \A s \in Slots :
        /\ \A i \in DOMAIN Trace(s) :
               IsRun(s, i, "systemctl start udisks2") =>
                   \A j \in DOMAIN Trace(s) : IsRun(s, j, "systemctl start udisks2") => j = i
        /\ Ran(s, "systemctl start udisks2") =>
               Exited(s) /\ Did(s, Cmd("systemctl is-active udisks2", 1))
        /\ Exited(s) /\ Did(s, Cmd("systemctl is-active udisks2", 1)) =>
               Ran(s, "systemctl start udisks2")

\* A formatting build whose status check could not be run, ended without a start.
C2_Witness ==
    \E s \in Slots :
        /\ Exited(s) /\ Did(s, Cmd("systemctl is-active udisks2", -1))
        /\ Ran(s, "mkfs.ext4")
        /\ ~Ran(s, "systemctl start udisks2")

\* C3: a build runs wipefs, parted or mkfs.ext4 only if the user answered yes
\* to the format warning shown for that request; no thread exists for a request
\* whose warning was answered otherwise.
C3_DestructiveOnlyAfterYes ==
    \A s \in Slots :
        /\ (\E c \in Destructive : Ran(s, c)) => worker[s].resp = "yes"
        /\ worker[s].pc # "idle" => worker[s].resp \in {"yes", ""}
        /\ worker[s].pc # "idle" /\ worker[s].resp = "" => worker[s].req.no_format

C3_Witness ==
    \E s \in Slots : Did(s, Cmd("mkfs.ext4", 1)) /\ worker[s].resp = "yes"

\* C4: a build with the skip-format flag runs none of wipefs, parted,
\* partprobe and mkfs.ext4 (and can reach Done: the witness).
C4_SkipFormatRunsNoFormatCommand ==
    \A s \in Slots :
        worker[s].req.no_format => \A c \in FormatCommands : ~Ran(s, c)

C4_Witness ==
    \E s \in Slots :
        /\ worker[s].req.no_format /\ Exited(s) /\ ReachedDone(s)
        /\ Did(s, Cmd("mount", 1))

\* The orchestrator's state where the thread stands: 1 Preparing,
\* 2 FetchingRuntime, 3 FetchingArt, 4 StagingContent, 5 ResolvingExecutable,
\* 6 WritingManifest, 7 Syncing, 8 Ejecting, 9 Done, 10 Failed (the error has
\* been logged, the cleanup is to come), 11 the cleanup after Done, and the end.
PhaseOf(w) ==
    CASE w.pc = "idle" -> 0
      [] w.pc \in {"download", "verify"} -> 2
      [] w.pc = "art" -> 3
      [] w.pc \in {"stage", "copy"} -> 4
      [] w.pc = "resolve" -> 5
      [] w.pc = "write_kzi" -> 6
      [] w.pc = "sync" -> 7
      [] w.pc = "eject" -> 8
      [] w.pc = "done" -> 9
      [] w.pc = "finally" -> IF w.err # "" THEN 10 ELSE 11
      [] w.pc = "exited" -> 11
      [] OTHER -> 1

\* C5: every step of a build thread stays in its state or moves to the next
\* one in the order Preparing, FetchingRuntime, FetchingArt, StagingContent,
\* ResolvingExecutable, WritingManifest, Syncing, Ejecting (entered only with
\* the eject flag), Done; a failure moves to Failed from a state before Done
\* only, and from Failed or Done nothing but the cleanup follows.
C5_StepsInOrder ==
    [][\A s \in Slots :
          LET p == PhaseOf(worker[s])
              q == PhaseOf(worker'[s])
          IN  \/ q = p
              \/ p \in 0..6 /\ q = p + 1
              \/ p = 7 /\ q = IF worker[s].req.eject THEN 8 ELSE 9
              \/ p = 8 /\ q = 9
              \/ p \in 1..8 /\ q = 10
              \/ p \in {9, 10} /\ q = 11]_vars

\* A build with the eject flag about to report Done, every step behind it.
C5_Witness ==
    \E s \in Slots :
        /\ worker[s].pc = "done" /\ worker[s].req.eject
        /\ Did(s, Cmd("umount -l mount_point", 1)) /\ worker[s].req.src # ""

\* C6: when a build opens cart.kzi for writing, the partition has been
\* formatted (unless skipped), mounted and chowned, the runtime has been
\* downloaded and, with verification on, its digest compared and found equal,
\* and with a source directory every file of it has been copied; a build that
\* failed in an earlier step never writes it.
C6_ManifestAfterPriorSteps ==
    \A s \in Slots :
        LET rq == worker[s].req
        IN  /\ Tried(s, "write cart.kzi") =>
                /\ rq.no_format \/ Did(s, Cmd("mkfs.ext4", 1))
                /\ Did(s, Cmd("mount", 1)) /\ Did(s, Cmd("chown -R", 1))
                /\ Did(s, Io("makedirs", 1))
                /\ Did(s, Io("write runtime", 1))
                /\ rq.verify_runtime =>
                       Did(s, Log("Runtime downloaded and verified."))
                /\ rq.src # "" => isdir(rq.src) /\ worker[s].copied = Len(HostDirs[rq.src])
            /\ Failed(s) /\ worker[s].err \notin {"write cart.kzi", "umount"} =>
                ~Tried(s, "write cart.kzi")

C6_Witness ==
    \E s \in Slots :
        /\ Did(s, Io("write cart.kzi", 1))
        /\ worker[s].req.verify_runtime /\ worker[s].req.src = "/game"
        /\ ~worker[s].req.no_format

\* C7: a build with verification on whose downloaded file has another digest
\* than the expected one fails in the digest check, and a build failed there
\* has neither fetched art nor staged content nor written cart.kzi, it never
\* reports Done, the downloaded file is still on the cart, the partition is
\* still mounted and no umount has been run since it was mounted.
C7_MismatchFailsAndLeavesCart ==
    \A s \in Slots :
      /\ /\ worker[s].req.verify_runtime /\ worker[s].pc # "verify"
         /\ Did(s, Io("write runtime", 1))
         /\ Lower(cart.runtime) # Lower(worker[s].req.runtime_sha)
         => worker[s].err = "Runtime SHA-256 mismatch!"
      /\ worker[s].err = "Runtime SHA-256 mismatch!" =>
            /\ worker[s].pc \in {"finally", "exited"}
            /\ worker[s].req.verify_runtime
            /\ ~ArtRan(s) /\ ~StagingRan(s) /\ ~Tried(s, "write cart.kzi")
            /\ ~ReachedDone(s)
            /\ cart.runtime \notin {<<>>, Partial}
            /\ mounted
            /\ \A i \in DOMAIN Trace(s) :
                   Trace(s)[i] = Cmd("mount", 1) =>
                       \A j \in (i + 1)..Len(Trace(s)) :
                           ~(Trace(s)[j][1] = "cmd"
                             /\ Trace(s)[j][2] \in {"umount -l mp", "umount -l part",
                                                    "umount -l mount_point"})
            /\ Did(s, Log("ERROR: Runtime SHA-256 mismatch!"))

\* The published runtime downloaded, a wrong digest expected, the build over.
C7_Witness ==
    \E s \in Slots :
        /\ Exited(s) /\ worker[s].err = "Runtime SHA-256 mismatch!"
        /\ cart.runtime = DEFAULTS(worker[s].req.runtime).runtime_sha256

\* C8: a build gets past FetchingRuntime (reports progress 20) if and only if
\* the download was written and, with the verify flag on, the file's digest
\* equals the expected one up to the case of the hexadecimal digits; it fails
\* on a mismatch only if the flag is on and they differ; it logs "verified"
\* only after a comparison found them equal; with the flag off it goes on with
\* whatever was downloaded.
C8_ProceedsIffVerified ==
    \A s \in Slots :
        LET rq == worker[s].req
            same == Lower(cart.runtime) = Lower(rq.runtime_sha)
        IN  /\ PastRuntime(s) =>
                /\ Did(s, Io("write runtime", 1))
                /\ rq.verify_runtime => same /\ Did(s, Io("sha256_file", 1))
            /\ PhaseOf(worker[s]) \in 3..9 => PastRuntime(s)
            /\ /\ Did(s, Io("write runtime", 1)) /\ worker[s].pc # "verify"
               /\ ~rq.verify_runtime \/ same
               => PastRuntime(s)
            /\ worker[s].err = "Runtime SHA-256 mismatch!" => rq.verify_runtime /\ ~same
            /\ Did(s, Log("Runtime downloaded and verified.")) =>
                same /\ Did(s, Io("sha256_file", 1))
            /\ ~rq.verify_runtime /\ PastRuntime(s) =>
                Did(s, Log("Runtime downloaded (verification skipped)."))

\* Verified against a digest typed in upper case.
C8_Witness ==
    \E s \in Slots :
        /\ Did(s, Log("Runtime downloaded and verified."))
        /\ worker[s].req.runtime_sha = <<"9", "E", "9">>
        /\ cart.runtime = <<"9", "e", "9">>

\* C9: the art step never fails the build, and once it has run kazeta/icon.png
\* is there, written by SteamGridDB, from the Steam header or as the
\* placeholder.
C9_ArtNeverFatal ==
    \A s \in Slots :
        /\ worker[s].err # "write icon.png"
        /\ ArtRan(s) /\ worker[s].pc # "art" =>
               cart.icon \in {"steamgriddb", "header", "placeholder"}

\* C10: at most one build thread is running at any time.
C10_OneWorkerAtATime ==
    Cardinality({s \in Slots : worker[s].pc \notin {"idle", "exited"}}) <= 1

\* C11: what process_queue has handled, followed by what waits in the queue,
\* is at every moment exactly what the thread has emitted, in the order it
\* emitted it (nothing lost, doubled or out of order, however puts and takes
\* interleave); and with the window polling, the queue is empty again and
\* again, so that everything emitted before has been handled by then.
C11_DeliveredOnceInOrder ==
    /\ [](\E s \in Slots :
            /\ delivered \o queue = Events(Trace(s))
            /\ \A t \in Slots \ {s} : Trace(t) = <<>>)
    /\ []<>(queue = <<>>)

\* The loop is taking items while the thread, still running, has put more.
C11_Witness ==
    /\ poll = "draining" /\ Len(delivered) >= 2 /\ Len(queue) >= 2
    /\ \E s \in Slots : worker[s].pc = "mkfs" /\ Events(Trace(s)) = delivered \o queue

\* C12: in a failed build that had found the service active, the thread's
\* failure report "ERROR: ..." is emitted only after systemctl start udisks2
\* has been attempted.
C12_ErrorAfterRestart ==
    \A s \in Slots :
        Failed(s) /\ worker[s].udisks_was_active =>
            \A i \in DOMAIN Trace(s) :
                Trace(s)[i] = Log("ERROR: " \o worker[s].err) =>
                    \E j \in 1..(i - 1) : IsRun(s, j, "systemctl start udisks2")

\* C13: "Done" and progress 100 are reported only after os.sync() has been
\* called, and that call came after cart.kzi was written; and the umount of
\* an ejecting build comes only after such a call.
C13_SyncBeforeDone ==
    \A s \in Slots :
        \A i \in DOMAIN Trace(s) :
            \/ Trace(s)[i] \in {Log("Done. Kazeta cart ready."), Progress(100)}
            \/ IsRun(s, i, "umount -l mount_point")
            => \E k \in 1..(i - 1) :
                   /\ Trace(s)[k] = Io("os.sync", 1)
                   /\ \E m \in 1..(k - 1) : Trace(s)[m] = Io("write cart.kzi", 1)

\* An ejecting build has reported Done, the card unmounted after the sync.
C13_Witness ==
    \E s \in Slots :
        /\ Did(s, Progress(100)) /\ worker[s].req.eject
        /\ Did(s, Cmd("umount -l mount_point", 1)) /\ Did(s, Io("os.sync", 1))

\* The commands that change the device or what is mounted from it.
DeviceModifying == Destructive \cup {"mount", "chown -R"}

\* C14: on a host where the tool is not root and pkexec is missing, no build
\* gets a wipefs, parted, mkfs.ext4, mount or chown to succeed, none gets
\* beyond the preparation of the device, and every build ends failed.
C14_NoPrivilegeFailsBeforeDevice ==
    priv = "none" =>
        \A s \in Slots :
            /\ \A i \in DOMAIN Trace(s) :
                   Trace(s)[i][1] = "cmd" /\ Trace(s)[i][2] \in DeviceModifying =>
                       Trace(s)[i][3] # 1
            /\ PhaseOf(worker[s]) \in {0, 1, 10, 11}
            /\ worker[s].pc \in {"finally", "exited"} => Failed(s) /\ ~ReachedDone(s)
            /\ ~Did(s, Log("Mounted at: mp"))

\* A formatting build ended at wipefs, which could not be started.
C14_Witness ==
    \E s \in Slots :
        /\ priv = "none" /\ Exited(s) /\ worker[s].err = "wipefs -a"
        /\ Did(s, Cmd("wipefs -a", -1))

\* C20: every build, with or without the skip-format flag, has looked at the
\* service (systemctl is-active udisks2) before it unmounts existing mounts,
\* and has issued the stop before that if it found the service active.
C20_DetectionFirst ==
    \A s \in Slots :
        Did(s, Log("Unmounting any existing mounts")) =>
            /\ Ran(s, "systemctl is-active udisks2")
            /\ Did(s, Cmd("systemctl is-active udisks2", 1)) =>
                   Ran(s, "systemctl stop udisks2")

\* The prefix the Exec entry puts before the executable, lines 571 and 586.
ExecPrefix(runtime) == IF runtime = "windows" THEN "content/" ELSE "cd content && ./"

\* The warning of a search that found nothing, lines 579 and 599.
NoCandidateWarning(runtime) ==
    IF runtime = "windows" THEN Log("WARNING: No .exe found under content/")
    ELSE Log("WARNING: No likely Linux binary found")

\* The files under content/ that find_exe_under would offer for runtime.
CandidateFiles(runtime) ==
    IF runtime = "windows"
    THEN {f \in cart.content : EndsWithExe(basename(f.path))}
    ELSE IF \E f \in cart.content : ~HasDot(basename(f.path)) /\ f.x
    THEN {f \in cart.content : ~HasDot(basename(f.path)) /\ f.x}
    ELSE {f \in cart.content : Len(f.path) = 1 /\ ~HasDot(basename(f.path))}

\* The thread in slot s has been through the executable check of lines 565-601.
Resolved(s) == Did(s, Io("exists", 1))

\* C15: a build whose configured executable is not under content/, and whose
\* search finds no candidate, logs the warning of its runtime, keeps the
\* configured path, does not fail in that step, and writes a manifest whose
\* Exec entry is built from the configured path.
C15_NoCandidateKeepsConfigured ==
    \A s \in Slots :
        LET rq == worker[s].req
            line == ExecPrefix(rq.runtime) \o JoinPath(rq.exe)
        IN  Resolved(s) /\ ~exists(rq.exe) /\ CandidateFiles(rq.runtime) = {} =>
                /\ Did(s, NoCandidateWarning(rq.runtime))
                /\ ~Did(s, Log("Guessed executable"))
                /\ worker[s].exe = rq.exe
                /\ worker[s].exec_line = line
                /\ worker[s].err \in {"", "write cart.kzi", "umount"}
                /\ Did(s, Io("write cart.kzi", 1)) =>
                       cart.manifest = kzi_text(rq.name, rq.slug, line, rq.runtime)
                /\ ReachedDone(s) => Did(s, Io("write cart.kzi", 1))

\* A Linux build with nothing under content/ ended Done after the warning,
\* its manifest naming the configured executable.
C15_Witness ==
    \E s \in Slots :
        /\ worker[s].req.runtime = "linux" /\ cart.content = {}
        /\ Did(s, NoCandidateWarning("linux")) /\ ReachedDone(s)
        /\ cart.manifest = kzi_text(<<"Game">>, <<"game">>, "cd content && ./g.exe", "linux")

\* The sort key of line 261: the number of separators in the relative path
\* and the length of the file name.
Depth(p) == Len(p) - 1
Earlier(p, q) ==
    \/ Depth(p) < Depth(q)
    \/ Depth(p) = Depth(q) /\ Len(basename(p)) <= Len(basename(q))

\* The thread in slot s builds for Windows onto the existing filesystem and
\* copies nothing, and has written its manifest.
WindowsInPlace(s) ==
    /\ worker[s].req.runtime = "windows" /\ worker[s].req.no_format
    /\ worker[s].req.src = "" /\ Did(s, Io("write cart.kzi", 1))

\* C16 as stated: in Windows mode with skip-format and no source directory, the
\* Exec entry of the manifest is content/<configured executable>, whether or
\* not that file is on the cart.
C16_ExecIsConfigured ==
    \A s \in Slots :
        LET rq == worker[s].req
        IN  WindowsInPlace(s) =>
                cart.manifest =
                    kzi_text(rq.name, rq.slug, "content/" \o JoinPath(rq.exe), "windows")

\* C16, amended: in that case the Exec entry is content/<configured
\* executable> if that file is under content/ or no .exe file is; otherwise
\* it is content/<c> for an .exe file c under content/ that no other precedes
\* by depth and then by length of name.
C16_ExecConfiguredOrGuessed ==
    \A s \in Slots :
        LET rq == worker[s].req
            cands == CandidateFiles("windows")
            Manifest(path) == kzi_text(rq.name, rq.slug, "content/" \o JoinPath(path), "windows")
        IN  WindowsInPlace(s) =>
                IF exists(rq.exe) \/ cands = {}
                THEN cart.manifest = Manifest(rq.exe)
                ELSE \E c \in cands :
                       /\ \A d \in cands : Earlier(c.path, d.path)
                       /\ cart.manifest = Manifest(c.path)

\* Such a build onto a cart without the configured file, and without any
\* other .exe, has written Exec=content/g.exe and ended Done.
C16_Witness ==
    \E s \in Slots :
        /\ WindowsInPlace(s) /\ ReachedDone(s)
        /\ ~exists(worker[s].req.exe)
        /\ cart.manifest = kzi_text(worker[s].req.name, <<"game">>, "content/g.exe", "windows")

\* The percentages copy_tree has passed to its progress argument, in order.
IsReport(e) == e[1] = "report"
Reports(s) == SelectSeq(Trace(s), IsReport)
\* copy_tree has returned to the thread in slot s (line 563 follows it).
CopyReturned(s) == Did(s, Io("isdir", 1)) /\ Did(s, Progress(80))

\* C17: for a source tree of any number of files, the percentages copy_tree
\* reports are within 0..100 and never decrease, and once copy_tree has
\* returned the last one reported is 100.
C17_ReportsEndAtHundred ==
    \A s \in Slots :
        LET r == Reports(s)
        IN  /\ \A i \in DOMAIN r : r[i][3] \in 0..100
            /\ \A i, j \in DOMAIN r : i <= j => r[i][3] <= r[j][3]
            /\ CopyReturned(s) => r # <<>> /\ r[Len(r)][3] = 100

\* The relative paths of the candidates for runtime.
CandidatePaths(runtime) == {f.path : f \in CandidateFiles(runtime)}

\* C18: whatever is under content/ and in whatever order it is walked,
\* find_exe_under returns each candidate once, by ascending depth and then by
\* ascending length of name; so the executable a build guesses is a candidate
\* that none precedes: never runner when run is a candidate of the same
\* depth, never sub/run when a top-level run is a candidate.
C18_CandidatesOrdered ==
    /\ \A runtime \in {"windows", "linux"} :
           \A walk \in Walks(cart.content) :
               LET c == find_exe_under(walk, runtime)
               IN  /\ {c[i] : i \in DOMAIN c} = CandidatePaths(runtime)
                   /\ Len(c) = Cardinality(CandidatePaths(runtime))
                   /\ \A i, j \in DOMAIN c : i < j =>
                          \/ Depth(c[i]) < Depth(c[j])
                          \/ /\ Depth(c[i]) = Depth(c[j])
                             /\ Len(basename(c[i])) <= Len(basename(c[j]))
    /\ \A s \in Slots :
           LET cands == CandidatePaths(worker[s].req.runtime)
               exe == worker[s].exe
           IN  Did(s, Log("Guessed executable")) =>
                   /\ exe \in cands
                   /\ \A d \in cands : Earlier(exe, d)
                   /\ {<<Run>>, <<Runner>>} \subseteq cands => exe # <<Runner>>
                   /\ {<<Run>>, <<Sub, Run>>} \subseteq cands => exe # <<Sub, Run>>

\* A Linux build found run, runner and sub/run on the cart and guessed run.
C18_Witness ==
    \E s \in Slots :
        /\ worker[s].req.runtime = "linux" /\ Did(s, Log("Guessed executable"))
        /\ {<<Run>>, <<Runner>>, <<Sub, Run>>} \subseteq CandidatePaths("linux")
        /\ worker[s].exe = <<Run>>
        /\ worker[s].exec_line = "cd content && ./run"

\* Reading cart.kzi back as Key=Value lines: the text is cut at its newlines,
\* and each line at its first "=".
RECURSIVE SplitLines(_)
SplitLines(text) ==
    IF text = <<>> THEN <<>>
    ELSE LET n == CHOOSE i \in 1..(Len(text) + 1) :
                      /\ i = Len(text) + 1 \/ text[i] = "\n"
                      /\ \A j \in 1..(i - 1) : text[j] # "\n"
         IN  <<SubSeq(text, 1, n - 1)>> \o SplitLines(SubSeq(text, n + 1, Len(text)))
ParseLine(line) ==
    LET n == CHOOSE i \in 1..(Len(line) + 1) :
                 /\ i = Len(line) + 1 \/ line[i] = "="
                 /\ \A j \in 1..(i - 1) : line[j] # "="
    IN  [key |-> SubSeq(line, 1, n - 1), value |-> SubSeq(line, n + 1, Len(line))]
ParseKzi(text) == [i \in DOMAIN SplitLines(text) |-> ParseLine(SplitLines(text)[i])]

\* C19: the manifest a build has written reads back as exactly five
\* Key=Value lines, Name, Id, Exec, Icon and Runtime in that order, whose
\* values are the name and the identifier of the request, content/<path> or
\* cd content && ./<path> for the resolved executable, kazeta/icon.png and
\* the runtime.
C19_FiveLinesRoundTrip ==
    \A s \in Slots :
        LET rq == worker[s].req
            m == ParseKzi(cart.manifest)
        IN  Did(s, Io("write cart.kzi", 1)) =>
                /\ Len(m) = 5
                /\ [i \in 1..5 |-> m[i].key]
                       = <<<<"Name">>, <<"Id">>, <<"Exec">>, <<"Icon">>, <<"Runtime">>>>
                /\ m[1].value = rq.name
                /\ m[2].value = rq.slug
                /\ m[3].value = <<ExecPrefix(rq.runtime) \o JoinPath(worker[s].exe)>>
                /\ m[4].value = <<"kazeta/icon.png">>
                /\ m[5].value = <<rq.runtime>>

\* C21: when a Linux build has reached Done and its launch file (the
\* configured one, or the one the search chose) is under content/, that file
\* has the user-executable bit.
C21_LaunchFileExecutable ==
    \A s \in Slots :
        worker[s].req.runtime = "linux" /\ ReachedDone(s) =>
            \A f \in cart.content : f.path = worker[s].exe => f.x

\* C22: a build that failed, in whichever step, has not written the manifest.
C22_FailedWroteNoManifest ==
    \A s \in Slots :
        Failed(s) => ~Did(s, Io("write cart.kzi", 1))

\* The thread in slot s is formatting: it has started wipefs and its mount
\* has not been run yet (lines 531-537).
Formatting(s) ==
    /\ worker[s].pc \notin {"idle", "finally", "exited"}
    /\ Ran(s, "wipefs -a") /\ ~Ran(s, "mount")

\* C23: with builds running side by side, no step starts udisks2 while a
\* build is formatting: the service stopped for formatting is not running
\* again before that build has mounted its partition.
C23_NoRestartDuringFormat ==
    [][udisks2 # "active" /\ udisks2' = "active" => \A s \in Slots : ~Formatting(s)]_vars

\* The values the thread in slot s has passed to set_progress, in order.
IsProgress(e) == e[1] = "progress"
ProgressValues(s) == SelectSeq(Trace(s), IsProgress)
\* The thread in slot s has logged the "ERROR: ..." of its except clause,
\* line 624 (run_cmd's own "ERROR: command failed: ..." is another message).
WorkerError(s) == Failed(s) /\ Did(s, Log("ERROR: " \o worker[s].err))

\* C24: every build that was started comes to its end; at its end it has
\* either logged Done, with progress 100 right after it, or logged the
\* ERROR of its except clause and never emitted progress 100; no build has
\* both at any time; a step that raised is always followed by that ERROR (no
\* exception leaves the thread); and the progress values of a build start at
\* 0 and never decrease.
C24_OneOutcome ==
    /\ [](\A s \in Slots :
            LET pr == ProgressValues(s)
                tr == Trace(s)
            IN  /\ pr # <<>> => pr[1] = Progress(0)
                /\ \A i, j \in DOMAIN pr : i <= j => pr[i][3] <= pr[j][3]
                /\ ~(ReachedDone(s) /\ WorkerError(s))
                /\ Failed(s) <=> WorkerError(s)
                /\ WorkerError(s) => ~Did(s, Progress(100))
                /\ \A i \in DOMAIN tr :
                       /\ tr[i] = Log("Done. Kazeta cart ready.") =>
                              i < Len(tr) /\ tr[i + 1] = Progress(100)
                       /\ tr[i] = Progress(100) =>
                              i > 1 /\ tr[i - 1] = Log("Done. Kazeta cart ready.")
                /\ Exited(s) => (ReachedDone(s) /\ ~Failed(s)) \/ WorkerError(s))
    /\ \A s \in Slots : worker[s].pc = "start" ~> Exited(s)

\* A build has ended after its eject failed: ERROR logged, progress at 90.
C24_Witness ==
    \E s \in Slots :
        /\ Exited(s) /\ worker[s].err = "umount" /\ WorkerError(s)
        /\ ProgressValues(s)[Len(ProgressValues(s))] = Progress(90)

====
